---- MODULE Spec2Model ----
(***************************************************************************)
(* A model of the Box View client (index.js): one logical operation, its   *)
(* physical HTTP attempts, the response handler built by                   *)
(* createResponseHandler, and the retry timer.                             *)
(***************************************************************************)
EXTENDS Integers, Sequences, FiniteSets, TLC

(***************************************************************************)
(* Bounds                                                                  *)
(***************************************************************************)
\* the server stops sending retry-after once this many requests were issued
MaxAttempts == 3
\* the larger of the uploaded files has this many chunks
MaxChunks == 2

(***************************************************************************)
(* JavaScript values                                                       *)
(***************************************************************************)
Val(t, v) == [t |-> t, v |-> v]
Undefined == Val("undefined", "")
Null == Val("null", "")
EmptyArray == Val("array", "")
Buffer(text) == Val("buffer", text)
TransportErr == Val("Error", "ECONNREFUSED")

\* JS truthiness of the values that reach `!body` and `x || y`
Truthy(x) == x.t \notin {"undefined", "null"} /\ ~(x.t = "string" /\ x.v = "")

\* a header lookup: undefined when the header was not sent, else its string
NoHeader == [present |-> FALSE, value |-> <<>>]
Header(s) == [present |-> TRUE, value |-> s]
HeaderValues == { <<>>, <<"0">>, <<"2">> }
Headers == {NoHeader} \cup {Header(s) : s \in HeaderValues}

\* a lookup that reads the header as a number: 0 is falsy as well
TruthyHeader_ZeroFalsy(h) == h.present /\ h.value \notin {<<>>, <<"0">>}

\* a lookup that only tests whether the header was sent
TruthyHeader_PresentOnly(h) == h.present

\* truthiness of a header lookup: undefined and '' are falsy, '0' is not
TruthyHeader(h) == h.present /\ h.value # <<>>

\* JS numbers, as far as parseInt and * produce them here
Num(n) == [n |-> n, nan |-> FALSE]
NaN == [n |-> 0, nan |-> TRUE]
Times(x, k) == IF x.nan THEN NaN ELSE Num(x.n * k)

Digits == {"0", "1", "2", "3", "4", "5", "6", "7", "8", "9"}
DigitVal(c) ==
    CASE c = "0" -> 0 [] c = "1" -> 1 [] c = "2" -> 2 [] c = "3" -> 3
      [] c = "4" -> 4 [] c = "5" -> 5 [] c = "6" -> 6 [] c = "7" -> 7
      [] c = "8" -> 8 [] c = "9" -> 9

RECURSIVE SkipSpaces(_)
SkipSpaces(s) ==
    IF s # <<>> /\ Head(s) = " " THEN SkipSpaces(Tail(s)) ELSE s

\* value of the longest prefix of decimal digits of s, given the value so far
RECURSIVE DigitPrefix(_, _)
DigitPrefix(s, acc) ==
    IF s # <<>> /\ Head(s) \in Digits
    THEN DigitPrefix(Tail(s), acc * 10 + DigitVal(Head(s)))
    ELSE acc

\* parseInt(s, 10)
ParseInt(s) ==
    LET t == SkipSpaces(s)
        neg == t # <<>> /\ Head(t) = "-"
        u == IF t # <<>> /\ Head(t) \in {"-", "+"} THEN Tail(t) ELSE t
    IN  IF u = <<>> \/ Head(u) \notin Digits
        THEN NaN
        ELSE Num(IF neg THEN 0 - DigitPrefix(u, 0) ELSE DigitPrefix(u, 0))

(***************************************************************************)
(* Response bodies                                                         *)
(***************************************************************************)
JSONObjectText == "{\"id\":\"abc\"}"
RawBodies == {JSONObjectText, "null", "oops", ""}

\* JSON.parse on the texts above: throws on invalid JSON
JSONValid(text) == text \in {JSONObjectText, "null"}
JSONParse(text) ==
    IF text = JSONObjectText THEN Val("object", "id=abc") ELSE Null

\* what concat-stream hands to its callback: [] when nothing was written
concat(text) == IF text = "" THEN EmptyArray ELSE Buffer(text)

\* String(body), the coercion JSON.parse applies to its argument
ToText(body) == IF body.t = "buffer" THEN body.v ELSE ""

\* a parseJSONBody that hands the body back as it was read
parseJSONBody_Raw(body) == body

\* a parseJSONBody that yields null for a text it cannot parse
parseJSONBody_NullOnError(body) ==
    IF JSONValid(ToText(body)) THEN JSONParse(ToText(body)) ELSE Null

parseJSONBody(body) ==
    IF JSONValid(ToText(body)) THEN JSONParse(ToText(body)) ELSE body

statusText(statusCode) ==
    Val("string",
        CASE statusCode = 200 -> "OK"
          [] statusCode = 201 -> "Created"
          [] statusCode = 202 -> "Accepted"
          [] statusCode = 204 -> "No Content"
          [] statusCode = 404 -> "Not Found"
          [] statusCode = 429 -> "Too Many Requests"
          [] OTHER -> "unknown")

(***************************************************************************)
(* Responses and errors                                                    *)
(***************************************************************************)
Statuses == {200, 201, 202, 204, 404, 429}

\* a response object: id is its identity (the attempt it answers), raw the
\* body the server sent
Response(id, statusCode, retryAfter, raw) ==
    [statusCode |-> statusCode, id |-> id, retryAfter |-> retryAfter,
     raw |-> raw]
NoResponse == Response(0, 0, NoHeader, "")

\* an error object whose status defaults to 500 when there is no response
createErrorObject_Default500(error, response) ==
    [error |-> error,
     response |-> response,
     status |-> IF response # NoResponse THEN response.statusCode ELSE 500]

createErrorObject(error, response) ==
    [error |-> error,
     response |-> response,
     status |-> IF response # NoResponse /\ response.statusCode # 0
                THEN response.statusCode ELSE 0]

(***************************************************************************)
(* Operations                                                              *)
(***************************************************************************)
Ops == {"list", "get", "update", "delete", "uploadFile", "uploadURL",
        "getContent", "getThumbnail", "sessions.create", "sessions.delete"}

\* the options argument: "function" is the callback passed in its place
OptionArgs == {"function", "undefined", "retry:false", "retry:true", "retry:1"}
CallbackArgs == {"function", "undefined"}

\* the file argument of uploadFile: a path, a readable stream of a file, an
\* HTTP response or a Buffer; id names the stream object, 0 being the one
\* that reads the caller's file
NoFile == [id |-> 0, kind |-> "none"]
FileKinds == {"path", "stream", "response", "buffer"}
\* HTTP responses by what names them: a content-disposition header with a
\* filename, one without, one with an empty filename, none but a request
\* path, none and the request path /
ResponseKinds ==
    {"response", "response:inline", "response:noname", "response:path",
     "response:root"}
\* a file of one chunk and one of MaxChunks chunks, the chunks numbered
FileContents == {[i \in 1..n |-> i] : n \in {1, MaxChunks}}

\* options.params: the fields the operations read or derive, "" for a field
\* the object does not have
NoParams ==
    [name |-> "", url |-> "", document_id |-> "", created_before |-> "",
     created_after |-> "", expires_at |-> ""]
\* a date as callers give it, and the params objects they pass
SomeDate == "2014-01-01"
ParamObjects ==
    {[NoParams EXCEPT !.name = n, !.created_before = d, !.expires_at = e] :
        n \in {"", "given.pdf"}, d \in {"", SomeDate}, e \in {"", SomeDate}}

\* getTimestamp(date): new Date(date).toISOString()
getTimestamp(date) ==
    IF date = SomeDate THEN "2014-01-01T00:00:00.000Z" ELSE date

NoCall == [op |-> "", options |-> "", callback |-> "", file |-> NoFile,
           content |-> <<>>, params |-> NoParams]

\* documents.list reads options.params: it throws on list()
Throws(args) == args.op = "list" /\ args.options = "undefined"

\* the callback after `if (typeof options === 'function') callback = options`
CallbackFn(args) ==
    IF args.options = "function" THEN "function" ELSE args.callback

\* a retry option tested for truthiness only
RetryArg_Truthy(args) ==
    IF args.options \in {"retry:true", "retry:1"} THEN "function" ELSE "false"

\* retry = (retry === true) && function () { this.op.apply(this, args) }
RetryArg(args) ==
    IF args.options = "retry:true" THEN "function" ELSE "false"

Buffered(op) ==
    op \in {"list", "get", "update", "uploadFile", "uploadURL", "sessions.create"}

\* a buffered callback whose wrapper declares two parameters
createBufferedCallback_Unbuffered(fn) == IF fn = "function" THEN 2 ELSE 0

\* an unbuffered callback whose wrapper declares three parameters
createCallback_Buffered(fn) == IF fn = "function" THEN 3 ELSE 0

\* a buffered callback whose no-op stand-in declares three parameters too
createBufferedCallback_NoopBuffered(fn) == 3

\* callback.length of createBufferedCallback(fn) / createCallback(fn)
createBufferedCallback(fn) == IF fn = "function" THEN 3 ELSE 0
createCallback(fn) == IF fn = "function" THEN 2 ELSE 0
CallbackLength(args) ==
    IF Buffered(args.op) THEN createBufferedCallback(CallbackFn(args))
    ELSE createCallback(CallbackFn(args))

\* wrappers that do not pass the error on
FnArgs_DropsErr(args, err, res, body) ==
    IF Buffered(args.op)
    THEN [err |-> Null, a2 |-> body, a3 |-> res]
    ELSE [err |-> Null, a2 |-> res, a3 |-> Undefined]

\* the arguments of fn when the wrapper is called as callback(err, res, body)
FnArgs(args, err, res, body) ==
    IF Buffered(args.op)
    THEN [err |-> err, a2 |-> body, a3 |-> res]
    ELSE [err |-> err, a2 |-> res, a3 |-> Undefined]

Codes(c) == [t |-> "array", codes |-> c]
Arg(t) == [t |-> t, codes |-> {}]

\* a handler that does not shift a retry function passed as second argument
createResponseHandler_NoShift(okStatusCodes, retryFn) ==
    [okStatusCodes |-> IF okStatusCodes.t = "array" THEN okStatusCodes.codes
                       ELSE IF okStatusCodes.t = "function" THEN {}
                       ELSE {200},
     retryFn |-> retryFn.t]

createResponseHandler(okStatusCodes, retryFn) ==
    LET shifted == okStatusCodes.t = "function"
        fn == IF shifted THEN okStatusCodes ELSE retryFn
        ok == IF shifted THEN Arg("null") ELSE okStatusCodes
    IN  [okStatusCodes |-> IF ok.t = "array" THEN ok.codes ELSE {200},
         retryFn |-> fn.t]

\* sessions.delete, which the API table and the README list: DELETE
\* /sessions/{id}, success on 204, retry supported, nothing buffered
sessionsDeleteHandler(a) ==
    createResponseHandler(Codes({204}), Arg(RetryArg(a)))

\* handlers where sessions.create accepts 201 only
Handler_SessionsNo202(a) ==
    LET retry == Arg(RetryArg(a))
    IN  CASE a.op \in {"list", "get", "update"} ->
               createResponseHandler(retry, Arg("undefined"))
          [] a.op = "delete" ->
               createResponseHandler(Codes({204}), retry)
          [] a.op \in {"uploadFile", "uploadURL", "getContent", "getThumbnail"} ->
               createResponseHandler(Codes({200, 202}), retry)
          [] a.op = "sessions.create" ->
               createResponseHandler(Codes({201}), retry)
          [] a.op = "sessions.delete" -> sessionsDeleteHandler(a)

\* handlers where documents.delete keeps the default success set
Handler_DeleteDefault(a) ==
    LET retry == Arg(RetryArg(a))
    IN  CASE a.op \in {"list", "get", "update", "delete"} ->
               createResponseHandler(retry, Arg("undefined"))
          [] a.op \in {"uploadFile", "uploadURL", "getContent", "getThumbnail"} ->
               createResponseHandler(Codes({200, 202}), retry)
          [] a.op = "sessions.create" ->
               createResponseHandler(Codes({201, 202}), retry)
          [] a.op = "sessions.delete" -> sessionsDeleteHandler(a)

\* the handler each operation builds
Handler(a) ==
    LET retry == Arg(RetryArg(a))
    IN  CASE a.op \in {"list", "get", "update"} ->
               createResponseHandler(retry, Arg("undefined"))
          [] a.op = "delete" ->
               createResponseHandler(Codes({204}), retry)
          [] a.op \in {"uploadFile", "uploadURL", "getContent", "getThumbnail"} ->
               createResponseHandler(Codes({200, 202}), retry)
          [] a.op = "sessions.create" ->
               createResponseHandler(Codes({201, 202}), retry)
          [] a.op = "sessions.delete" -> sessionsDeleteHandler(a)

(***************************************************************************)
(* Physical requests                                                       *)
(***************************************************************************)
Token == "token T"

\* the options createClient(token, options) may be given: none, or request
\* defaults that carry an authorization header of their own
ClientOptions == {"none", "authorization"}

\* extend(true, a, b) on header maps: b's entries override a's
extend(a, b) ==
    [k \in DOMAIN a \cup DOMAIN b |-> IF k \in DOMAIN b THEN b[k] ELSE a[k]]

NoHeaders == [k \in {} |-> ""]

\* defaults.headers of a client created with the given options
DefaultHeaders(client) ==
    extend(("authorization" :> Token) @@ ("user-agent" :> "node-box-view"),
           IF client = "authorization" THEN ("authorization" :> "other")
           ELSE NoHeaders)

\* the method each operation requests with (hyperquest defaults to GET)
Method(op) ==
    CASE op \in {"list", "get", "getContent", "getThumbnail"} -> "GET"
      [] op = "update" -> "PUT"
      [] op \in {"delete", "sessions.delete"} -> "DELETE"
      [] op \in {"uploadFile", "uploadURL", "sessions.create"} -> "POST"

\* the URL each operation requests, for the id and parameters of the call
URL(op) ==
    CASE op = "list" -> "api/documents"
      [] op \in {"get", "update", "delete"} -> "api/documents/id"
      [] op = "uploadFile" -> "upload/documents"
      [] op = "uploadURL" -> "api/documents"
      [] op = "getContent" -> "api/documents/id/content"
      [] op = "getThumbnail" -> "api/documents/id/thumbnail?width=w&height=h"
      [] op = "sessions.create" -> "api/sessions"
      [] op = "sessions.delete" -> "api/sessions/id"

\* the headers the operation itself passes to req
RequestHeaders(op) ==
    CASE op \in {"update", "uploadURL", "sessions.create"} ->
             ("content-type" :> "application/json")
      [] op = "uploadFile" -> ("content-type" :> "multipart/form-data")
      [] OTHER -> NoHeaders

\* the body written to the request, the file part of a multipart aside
Body(op) ==
    CASE op = "update" -> "JSON(data)"
      [] op = "uploadURL" -> "JSON(params)"
      [] op = "sessions.create" -> "JSON(params)"
      [] op = "uploadFile" -> "form(params)"
      [] OTHER -> ""

\* request defaults merged shallowly: the operation's headers replace the
\* default ones
defaults_Shallow(client, headers) ==
    IF headers = NoHeaders THEN DefaultHeaders(client) ELSE headers

\* request.defaults: opt = extend(true, {}, options, opt)
defaults(client, headers) == extend(DefaultHeaders(client), headers)

\* the request req(url, requestOptions, handler) sends for the arguments a
Request(client, a) ==
    [body |-> Body(a.op), url |-> URL(a.op),
     headers |-> defaults(client, RequestHeaders(a.op)),
     method |-> Method(a.op)]

(***************************************************************************)
(* Streams                                                                 *)
(***************************************************************************)
\* chunks a PassThrough takes in before its writes stop draining
HighWaterMark == 1

\* file.readable, after a path has been opened with fs.createReadStream
Readable(a) == a.file.kind \in {"path", "stream"} \cup ResponseKinds

\* what determineFilename reads of a file: whether it is an HTTP response
\* (own property httpVersion), its content-disposition header as a sequence
\* of tokens, the path of its request and the path of a file stream, both
\* as sequences of segments
NoMeta == [path |-> <<>>, http |-> FALSE, disposition |-> <<>>, reqPath |-> <<>>]

\* the caller's file: a path opened with fs.createReadStream(path) and a
\* file stream carry the path, an HTTP response its headers and its request
SourceMeta(kind) ==
    CASE kind \in {"path", "stream"} ->
             [NoMeta EXCEPT !.path = <<"dir", "doc.pdf">>]
      [] kind = "response" ->
             [NoMeta EXCEPT !.http = TRUE,
                            !.disposition = <<"attachment;", "filename=",
                                              "report.pdf">>,
                            !.reqPath = <<"files", "get.php">>]
      [] kind = "response:inline" ->
             [NoMeta EXCEPT !.http = TRUE,
                            !.disposition = <<"inline">>,
                            !.reqPath = <<"files", "get.php">>]
      [] kind = "response:noname" ->
             [NoMeta EXCEPT !.http = TRUE,
                            !.disposition = <<"attachment;", "filename=">>,
                            !.reqPath = <<"files", "get.php">>]
      [] kind = "response:path" ->
             [NoMeta EXCEPT !.http = TRUE,
                            !.reqPath = <<"pathname.pdf">>]
      [] kind = "response:root" ->
             [NoMeta EXCEPT !.http = TRUE]
      [] OTHER -> NoMeta

\* path.basename of a path given by its segments
basename(segments) ==
    IF segments = <<>> THEN "" ELSE segments[Len(segments)]

\* /filename=(.*)/.exec(header): null without the token filename=, else the
\* text that follows it
FilenameMatch(header) ==
    LET at == {i \in 1..Len(header) : header[i] = "filename="}
    IN  IF at = {} THEN [null |-> TRUE, text |-> ""]
        ELSE LET i == CHOOSE j \in at : \A k \in at : j <= k
             IN  [null |-> FALSE,
                  text |-> IF i < Len(header) THEN header[i + 1] ELSE ""]

\* determineFilename(file): reading filenameMatch[1] of a null match throws
determineFilename(m) ==
    LET match == FilenameMatch(m.disposition)
        fromHeader == IF m.disposition # <<>> THEN match.text ELSE ""
        filename ==
            IF m.http
            THEN IF fromHeader # "" THEN fromHeader ELSE basename(m.reqPath)
            ELSE IF m.path # <<>> THEN basename(m.path) ELSE ""
    IN  [name |-> IF filename # "" THEN filename ELSE "untitled document",
         throws |-> m.http /\ m.disposition # <<>> /\ match.null]

\* duplicates that carry none of the properties of their source
CopyMeta_Nothing(m) == NoMeta

\* `copy relevant properties to the new stream objects`
CopyMeta(m) ==
    IF m.http
    THEN [NoMeta EXCEPT !.http = TRUE, !.disposition = m.disposition,
                        !.reqPath = m.reqPath]
    ELSE IF m.path # <<>> THEN [NoMeta EXCEPT !.path = m.path]
    ELSE NoMeta

\* a stream: the chunks it holds, whether its producer has ended it, and
\* whether it has passed that end on,
\* and the properties determineFilename reads of it
Stream(buf, ended) ==
    [buf |-> buf, ended |-> ended, done |-> FALSE, meta |-> NoMeta]

\* `if (retry && file.readable)`: the upload duplicates its source
Duplicates(a) ==
    a.op = "uploadFile" /\ RetryArg(a) = "function" /\ Readable(a)

Cached(n) == [id |-> n, kind |-> "stream"]

\* an upload that leaves the arguments object as the caller passed it
Arguments_KeepsSource(a, n) == a

\* the arguments object once attempt n has run: `args[0] = cached`
Arguments(a, n) ==
    IF Duplicates(a) THEN [a EXCEPT !.file = Cached(n)] ELSE a

(***************************************************************************)
(* State                                                                   *)
(***************************************************************************)
VARIABLES
    client,     \* the options the client was created with
    reqs,       \* the physical requests issued, in order
    streams,    \* the file streams of an upload: the source, then the cached
                \* copy each duplicating attempt made
    uploads,    \* per request, the params it sends and the file content it
                \* has been sent so far
    call,       \* the arguments the caller passed, NoCall before the call
    args,       \* the arguments of the latest invocation of the operation
    threw,      \* the invocation threw synchronously
    requests,   \* number of physical requests issued
    inflight,   \* attempts whose request is awaiting the transport
    timers,     \* pending setTimeout(retryFn, ms) timers, oldest first
    waited,     \* per pending timer, the milliseconds since it was set
    owner,      \* per pending timer, the operation whose retryFn it holds
    turn,       \* the operation whose closure the variables below describe
    parked,     \* the closure of the other operation of the client
    reading,    \* responses piped into concat, awaiting the end of the body
    consumed,   \* responses whose body stream has ended
    cbLog,      \* the invocations of the caller's callback, in order
    first,      \* the first response the transport delivered (without body)
    last,       \* the latest response the transport delivered
    pendings    \* number of delivered responses that were pending ones

vars == <<client, reqs, streams, uploads, call, args, threw, requests,
          inflight, timers, waited, owner, turn, parked, reading, consumed,
          cbLog, first, last, pendings>>

\* an operation that has not been called
Idle ==
    [args |-> NoCall, reqs |-> <<>>, streams |-> <<>>, uploads |-> <<>>,
     call |-> NoCall, threw |-> FALSE, requests |-> 0, inflight |-> {},
     reading |-> {}, consumed |-> {}, cbLog |-> <<>>, first |-> NoResponse,
     last |-> NoResponse, pendings |-> 0]

Init ==
    /\ client = "none"
    /\ reqs = <<>>
    /\ streams = <<>>
    /\ uploads = <<>>
    /\ call = NoCall
    /\ args = NoCall
    /\ threw = FALSE
    /\ requests = 0
    /\ inflight = {}
    /\ timers = <<>>
    /\ waited = <<>>
    /\ owner = <<>>
    /\ turn = 1
    /\ parked = Idle
    /\ reading = {}
    /\ consumed = {}
    /\ cbLog = <<>>
    /\ first = NoResponse
    /\ last = NoResponse
    /\ pendings = 0

(***************************************************************************)
(* The response handler                                                    *)
(***************************************************************************)
\* callback(err, res, body): the wrapper passes the call on to fn, if any
Invoke(err, res, body) ==
    cbLog' = IF CallbackFn(args) = "function"
             THEN Append(cbLog, FnArgs(args, err, res, body))
             ELSE cbLog

\* a retry that does not check that retryFn is a function
retry_IgnoresRetryFn(response, retryFn) ==
    LET retryAfter == response.retryAfter
    IN  IF TruthyHeader(retryAfter)
        THEN [set |-> TRUE, ms |-> Times(ParseInt(retryAfter.value), 1000),
              result |-> TRUE]
        ELSE [set |-> FALSE, ms |-> NaN, result |-> FALSE]

\* a retry that reports the response as taken whenever retry was requested
retry_StallsWithoutHeader(response, retryFn) ==
    LET retryAfter == response.retryAfter
    IN  IF retryFn = "function" /\ TruthyHeader(retryAfter)
        THEN [set |-> TRUE, ms |-> Times(ParseInt(retryAfter.value), 1000),
              result |-> TRUE]
        ELSE [set |-> FALSE, ms |-> NaN, result |-> retryFn = "function"]

\* a retry that sets its timer and does not tell its caller
retry_ReturnsNothing(response, retryFn) ==
    LET retryAfter == response.retryAfter
    IN  IF retryFn = "function" /\ TruthyHeader(retryAfter)
        THEN [set |-> TRUE, ms |-> Times(ParseInt(retryAfter.value), 1000),
              result |-> FALSE]
        ELSE [set |-> FALSE, ms |-> NaN, result |-> FALSE]

\* a retry that takes every response with a retry-after value, and sets the
\* timer only when there is a function to run
retry_TakesHeader(response, retryFn) ==
    LET retryAfter == response.retryAfter
    IN  IF TruthyHeader(retryAfter)
        THEN [set |-> retryFn = "function",
              ms |-> Times(ParseInt(retryAfter.value), 1000), result |-> TRUE]
        ELSE [set |-> FALSE, ms |-> NaN, result |-> FALSE]

\* a retry that passes the seconds of the header to setTimeout as they are
retry_Seconds(response, retryFn) ==
    LET retryAfter == response.retryAfter
    IN  IF retryFn = "function" /\ TruthyHeader(retryAfter)
        THEN [set |-> TRUE, ms |-> ParseInt(retryAfter.value), result |-> TRUE]
        ELSE [set |-> FALSE, ms |-> NaN, result |-> FALSE]

\* retry(response): whether it calls setTimeout(retryFn, ms), and its result
retry(response, retryFn) ==
    LET retryAfter == response.retryAfter
    IN  IF retryFn = "function" /\ TruthyHeader(retryAfter)
        THEN [set |-> TRUE, ms |-> Times(ParseInt(retryAfter.value), 1000),
              result |-> TRUE]
        ELSE [set |-> FALSE, ms |-> NaN, result |-> FALSE]

\* a retry that sets its timer whatever it decided
AfterRetry_Always(response, r) ==
    Append(timers, [ms |-> r.ms, by |-> response.id])

\* the timers after retry(response) has run
AfterRetry(response, r) ==
    IF r.set THEN Append(timers, [ms |-> r.ms, by |-> response.id]) ELSE timers

\* every client or server error is offered to retry()
RetryableFailure_AnyError(statusCode) == statusCode >= 400

\* no failure status is offered to retry()
RetryableFailure_Never(statusCode) == FALSE

\* the failure statuses handleResponse offers to retry()
RetryableFailure(statusCode) == statusCode = 429

\* response.pipe(concat(...)): stage tells which of the two continuations
Pipe(response, stage, rest) ==
    reading' = rest \cup {[response |-> response, stage |-> stage]}

\* handleResponse(response, body); rest is what is still being read besides
\* this response
handleResponse(response, body, rest) ==
    LET h == Handler(args)
        r == retry(response, h.retryFn)
    IN  IF CallbackLength(args) = 3 /\ body = Undefined
        THEN /\ Pipe(response, "body", rest)
             /\ UNCHANGED <<timers, cbLog>>
        ELSE IF response.statusCode \in h.okStatusCodes
        THEN /\ timers' = AfterRetry(response, r)
             /\ reading' = rest
             /\ IF r.result THEN UNCHANGED cbLog
                ELSE Invoke(Null, response, body)
        ELSE IF RetryableFailure(response.statusCode) /\ r.result
        THEN /\ timers' = AfterRetry(response, r)
             /\ reading' = rest
             /\ UNCHANGED cbLog
        ELSE /\ timers' = IF RetryableFailure(response.statusCode)
                          THEN AfterRetry(response, r) ELSE timers
             /\ IF ~Truthy(body)
                THEN Pipe(response, "error", rest) /\ UNCHANGED cbLog
                ELSE /\ Invoke(createErrorObject(body, response), Undefined, Undefined)
                     /\ reading' = rest

\* what a pipe into concat yields: the unread body; a stream that has already
\* ended ends the new destination at once, with nothing written
StreamContent(response) ==
    IF response.id \in consumed THEN "" ELSE response.raw

\* the success statuses of each operation, as the API table lists them
SuccessCodes(op) ==
    CASE op \in {"list", "get", "update"} -> {200}
      [] op = "delete" -> {204}
      [] op \in {"uploadFile", "uploadURL", "getContent", "getThumbnail"} -> {200, 202}
      [] op = "sessions.create" -> {201, 202}
      [] op = "sessions.delete" -> {204}
      [] OTHER -> {}

\* a response the operation polls on: retry requested, a status of its
\* success set or 429, and a retry-after value
PendingResponse(a, response) ==
    /\ a.options = "retry:true"
    /\ response.statusCode \in SuccessCodes(a.op) \cup {429}
    /\ response.retryAfter.present
    /\ response.retryAfter.value # <<>>

(***************************************************************************)
(* Actions                                                                 *)
(***************************************************************************)
\* req(url, options, handler): one physical request
IssueRequest(a) ==
    /\ requests' = requests + 1
    /\ inflight' = inflight \cup {requests + 1}
    /\ reqs' = Append(reqs, Request(client, a))

\* the url argument of uploadURL and the id argument of sessions.create
UploadedURL == <<"host", "remote.doc">>
UploadedURLText == "host/remote.doc"
DocumentId == "abc"

\* params = options.params: the operation writes to the caller's own object
CopyParams_Alias(params) == [own |-> TRUE, fields |-> params]

\* params = extend({}, options.params): a new object with the same fields
CopyParams(params) == [own |-> FALSE, fields |-> params]

\* what determineFilename reads of the file argument
FileMeta(a, ss) ==
    IF Readable(a) THEN ss[a.file.id + 1].meta ELSE NoMeta

\* uploadFile without a name calls determineFilename, which throws
NameThrows(a, ss) ==
    /\ a.op = "uploadFile"
    /\ a.params.name = ""
    /\ determineFilename(FileMeta(a, ss)).throws

\* the params the operation works on, once it has written the fields it
\* derives
Params(a, ss) ==
    LET params == CopyParams(a.params).fields
    IN  CASE a.op = "list" ->
               [params EXCEPT
                  !.created_before = IF @ # "" THEN getTimestamp(@) ELSE @,
                  !.created_after = IF @ # "" THEN getTimestamp(@) ELSE @]
          [] a.op = "uploadFile" ->
               [params EXCEPT
                  !.name = IF @ # "" THEN @
                           ELSE determineFilename(FileMeta(a, ss)).name]
          [] a.op = "uploadURL" ->
               [params EXCEPT
                  !.name = IF @ # "" THEN @ ELSE basename(UploadedURL),
                  !.url = UploadedURLText]
          [] a.op = "sessions.create" ->
               [params EXCEPT
                  !.document_id = DocumentId,
                  !.expires_at = IF @ # "" THEN getTimestamp(@) ELSE @]
          [] OTHER -> params

\* options.params as the caller finds it once the operation has run
ParamsAfter(a, ss) ==
    IF CopyParams(a.params).own THEN Params(a, ss) ELSE a.params

\* form.append('file', file): a readable file is piped into the request,
\* copied to `cached` as well when duplicated; a Buffer is written as it is
\* name is the filename of the file part, params are the fields sent
Upload(a, ss) ==
    IF a.op = "uploadFile" /\ Readable(a)
    THEN [name |-> Params(a, ss).name, params |-> Params(a, ss),
          done |-> FALSE, piped |-> TRUE, src |-> a.file.id,
          dup |-> Duplicates(a), data |-> <<>>]
    ELSE [name |-> IF a.op = "uploadFile" THEN Params(a, ss).name ELSE "",
          params |-> Params(a, ss),
          done |-> TRUE, piped |-> FALSE, src |-> 0, dup |-> FALSE,
          data |-> a.content]

\* the body of client.<op>, applied to the arguments a; ss are the file
\* streams there are when it runs
Operation(a, ss) ==
    IF Throws(a) \/ NameThrows(a, ss)
    THEN /\ args' = a
         /\ threw' = TRUE
         /\ streams' = ss
         /\ UNCHANGED <<requests, inflight, reqs, uploads>>
    ELSE /\ args' = [Arguments(a, requests + 1) EXCEPT
                        !.params = ParamsAfter(a, ss)]
         /\ threw' = FALSE
         /\ streams' = IF Duplicates(a)
                       THEN Append(ss, [Stream(<<>>, FALSE) EXCEPT
                                          !.meta = CopyMeta(ss[a.file.id + 1].meta)])
                       ELSE ss
         /\ uploads' = Append(uploads, Upload(a, ss))
         /\ IssueRequest(a)

\* a retry closure that re-applies the operation without the retry option
RetryCall_DropsRetry(a) == [a EXCEPT !.options = "retry:false"]

\* a retry closure that re-applies the operation to its named parameters,
\* of which callback holds the wrapper by then
RetryCall_NamedParams(a) == [a EXCEPT !.callback = "wrapper"]

\* the arguments retryFn applies the operation to: the arguments object
RetryCall(a) == a

\* client.<op>(..., options, callback), options carrying the given params
\* object if it is an object; uploadFile takes the file first
CallWith(op, options, callback, file, content, params) ==
    /\ call = NoCall
    /\ options = "function" => callback = "undefined"
    /\ options \in {"function", "undefined"} => params = NoParams
    /\ IF op = "uploadFile"
       THEN file.kind \in FileKinds \cup ResponseKinds /\ content # <<>>
       ELSE file = NoFile /\ content = <<>>
    /\ call' = [op |-> op, options |-> options, callback |-> callback,
                file |-> file, content |-> content, params |-> params]
    /\ Operation(call', IF Readable(call')
                        THEN <<[Stream(content, TRUE) EXCEPT
                                  !.meta = SourceMeta(file.kind)]>>
                        ELSE <<>>)
    /\ UNCHANGED <<client, timers, waited, owner, turn, parked, reading,
                   consumed, cbLog, first, last, pendings>>

\* the same call with options that carry no params
Call(op, options, callback, file, content) ==
    CallWith(op, options, callback, file, content, NoParams)

\* the requests stream k is piped into
Consumers(k) == {n \in 1..Len(uploads) : uploads[n].piped /\ uploads[n].src = k}

\* source.pipe(cached) pauses the source while cached's writes do not drain
Paused(k) ==
    \E n \in Consumers(k) :
        uploads[n].dup /\ Len(streams[n + 1].buf) > HighWaterMark

\* stream k has a chunk, or its end, to pass on and is not paused
CanFlow(k) ==
    /\ k + 1 \in 1..Len(streams)
    /\ Consumers(k) # {}
    /\ ~Paused(k)
    /\ \/ streams[k + 1].buf # <<>>
       \/ streams[k + 1].ended /\ \E n \in Consumers(k) : ~uploads[n].done

\* the file streams have passed on all they can: the request bodies are
\* written in full, or as far as a paused source lets them
Settled == \A k \in 0..MaxAttempts : ~CanFlow(k)

\* stream k passes its next chunk, or its end, on to every destination it
\* is piped into: the request body and, if duplicated, the cached copy
Flow(k) ==
    /\ CanFlow(k)
    /\ LET s == streams[k + 1]
           to == Consumers(k)
           copies == {n + 1 : n \in {m \in to : uploads[m].dup}}
       IN  IF s.buf # <<>>
           THEN /\ uploads' = [n \in 1..Len(uploads) |->
                                 IF n \in to /\ ~uploads[n].done
                                 THEN [uploads[n] EXCEPT
                                          !.data = Append(@, Head(s.buf))]
                                 ELSE uploads[n]]
                /\ streams' = [i \in 1..Len(streams) |->
                                 IF i = k + 1
                                 THEN [s EXCEPT !.buf = Tail(@)]
                                 ELSE IF i \in copies
                                 THEN [streams[i] EXCEPT
                                          !.buf = Append(@, Head(s.buf))]
                                 ELSE streams[i]]
           ELSE /\ uploads' = [n \in 1..Len(uploads) |->
                                 IF n \in to
                                 THEN [uploads[n] EXCEPT !.done = TRUE]
                                 ELSE uploads[n]]
                /\ streams' = [i \in 1..Len(streams) |->
                                 IF i = k + 1 THEN [s EXCEPT !.done = TRUE]
                                 ELSE IF i \in copies
                                 THEN [streams[i] EXCEPT !.ended = TRUE]
                                 ELSE streams[i]]
    /\ UNCHANGED <<client, reqs, call, args, threw, requests, inflight, timers,
                   waited, owner, turn, parked, reading, consumed, cbLog,
                   first, last, pendings>>

\* the milliseconds a step of the clock takes
TickMs == 1000

\* the time waited by each timer of ts: a timer just set has waited 0 ms
Waiting(ts) ==
    [i \in 1..Len(ts) |-> IF i <= Len(waited) THEN waited[i] ELSE 0]

\* setTimeout(retryFn, ms) runs retryFn once ms milliseconds have passed, and
\* at once when ms is not a number
Due(i) == timers[i].ms.nan \/ timers[i].ms.n <= waited[i]

\* time passes while some timer is waiting
Tick ==
    /\ \E i \in 1..Len(timers) : ~Due(i)
    /\ waited' = [i \in 1..Len(timers) |->
                    IF Due(i) THEN waited[i] ELSE waited[i] + TickMs]
    /\ UNCHANGED <<client, reqs, streams, uploads, call, args, threw, requests,
                   inflight, timers, owner, turn, parked, reading, consumed,
                   cbLog, first, last, pendings>>

\* the operation each timer of ts was set by: a timer just set, by the one
\* whose handler is running
Owners(ts) ==
    [i \in 1..Len(ts) |-> IF i <= Len(owner) THEN owner[i] ELSE turn]

\* a timer that runs on the arguments of whichever called operation is current
Closure_Current(i) == IF args = NoCall THEN owner[i] ELSE turn

\* the operation whose arguments the retryFn of timer i has captured
Closure(i) == owner[i]

\* the transport calls handler(null, response); it answers a request once
\* its body has been written
Respond(n, statusCode, retryAfter, raw) ==
    /\ n \in inflight
    /\ Settled
    /\ requests < MaxAttempts \/ ~retryAfter.present
    /\ LET response == Response(n, statusCode, retryAfter, raw)
       IN  /\ inflight' = inflight \ {n}
           /\ first' = IF first = NoResponse
                       THEN Response(n, statusCode, retryAfter, "") ELSE first
           /\ last' = response
           /\ pendings' = IF PendingResponse(call, response)
                          THEN pendings + 1 ELSE pendings
           /\ handleResponse(response, Undefined, reading)
    /\ waited' = Waiting(timers')
    /\ owner' = Owners(timers')
    /\ UNCHANGED <<client, reqs, streams, uploads, call, args, threw, requests,
                   consumed, turn, parked>>

\* the transport calls handler(error)
TransportError(n) ==
    /\ n \in inflight
    /\ Settled
    /\ inflight' = inflight \ {n}
    /\ Invoke(createErrorObject(TransportErr, NoResponse), Undefined, Undefined)
    /\ UNCHANGED <<client, reqs, streams, uploads, call, args, threw, requests,
                   timers, waited, owner, turn, parked, reading, consumed,
                   first, last, pendings>>

\* the body stream ends and concat calls its callback
ConcatEnd(rd) ==
    /\ rd \in reading
    /\ LET response == rd.response
           body == concat(StreamContent(response))
           error == IF Truthy(parseJSONBody(body))
                    THEN parseJSONBody(body)
                    ELSE statusText(response.statusCode)
       IN  /\ consumed' = consumed \cup {response.id}
           /\ IF rd.stage = "body"
              THEN handleResponse(response, parseJSONBody(body), reading \ {rd})
              ELSE /\ Invoke(createErrorObject(error, response), Undefined, Undefined)
                   /\ reading' = reading \ {rd}
                   /\ UNCHANGED timers
    /\ waited' = Waiting(timers')
    /\ owner' = Owners(timers')
    /\ UNCHANGED <<client, reqs, streams, uploads, call, args, threw, requests,
                   inflight, first, last, pendings, turn, parked>>

\* a repeating timer: firing leaves it pending
Fire_Interval(ts, i) == ts

\* the timers left once timer i has fired: setTimeout is single-shot
Fire(ts, i) == SubSeq(ts, 1, i - 1) \o SubSeq(ts, i + 1, Len(ts))

\* a retry timer fires: retryFn() applies the operation to its arguments again
TimerFire(i) ==
    /\ i \in 1..Len(timers)
    /\ Due(i)
    /\ Closure(i) = turn
    /\ timers' = Fire(timers, i)
    /\ waited' = Fire(waited, i)
    /\ owner' = Fire(owner, i)
    /\ Operation(RetryCall(args), streams)
    /\ UNCHANGED <<client, call, reading, consumed, cbLog, first, last,
                   pendings, turn, parked>>

Transport ==
    \/ \E n \in inflight, statusCode \in Statuses, retryAfter \in Headers,
          raw \in RawBodies : Respond(n, statusCode, retryAfter, raw)
    \/ \E n \in inflight : TransportError(n)

Next ==
    \/ \E op \in Ops, options \in OptionArgs, callback \in CallbackArgs,
          kind \in FileKinds \cup {"none"}, content \in FileContents \cup {<<>>} :
          Call(op, options, callback, [id |-> 0, kind |-> kind], content)
    \/ \E n \in inflight, statusCode \in Statuses, retryAfter \in Headers,
          raw \in RawBodies : Respond(n, statusCode, retryAfter, raw)
    \/ \E n \in inflight : TransportError(n)
    \/ \E rd \in reading : ConcatEnd(rd)
    \/ \E i \in 1..Len(timers) : TimerFire(i)
    \/ \E k \in 0..MaxAttempts : Flow(k)
    \/ Tick

Spec == Init /\ [][Next]_vars

\* the same for a client created with any of the client options
InitAnyClient ==
    /\ client \in ClientOptions
    /\ reqs = <<>> /\ streams = <<>> /\ uploads = <<>>
    /\ call = NoCall /\ args = NoCall /\ threw = FALSE
    /\ requests = 0 /\ inflight = {} /\ timers = <<>> /\ waited = <<>>
    /\ owner = <<>> /\ turn = 1 /\ parked = Idle
    /\ reading = {} /\ consumed = {} /\ cbLog = <<>>
    /\ first = NoResponse /\ last = NoResponse /\ pendings = 0

\* the bodies that take handleResponse down each of its paths: one that
\* parses to an object and one that parses to a falsy value
FairBodies == {JSONObjectText, "null"}

\* a path is opened as a stream before anything else is done with it
FairKinds == {"stream", "buffer"}

\* every call on such a client; the requests do not depend on what the
\* responses carry
ClientNext ==
    \/ \E op \in Ops, options \in OptionArgs, callback \in CallbackArgs,
          kind \in FairKinds \cup {"none"}, content \in FileContents \cup {<<>>} :
          Call(op, options, callback, [id |-> 0, kind |-> kind], content)
    \/ \E n \in inflight, statusCode \in Statuses, retryAfter \in Headers,
          raw \in FairBodies : Respond(n, statusCode, retryAfter, raw)
    \/ \E n \in inflight : TransportError(n)
    \/ \E rd \in reading : ConcatEnd(rd)
    \/ \E i \in 1..Len(timers) : TimerFire(i)
    \/ \E k \in 0..MaxAttempts : Flow(k)
    \/ Tick

ClientSpec == InitAnyClient /\ [][ClientNext]_vars

\* the steps of a call that requests retry
FairNext ==
    \/ \E op \in Ops, callback \in CallbackArgs,
          kind \in FairKinds \cup {"none"}, content \in FileContents \cup {<<>>} :
          Call(op, "retry:true", callback, [id |-> 0, kind |-> kind], content)
    \/ \E n \in inflight, statusCode \in Statuses, retryAfter \in Headers,
          raw \in FairBodies : Respond(n, statusCode, retryAfter, raw)
    \/ \E n \in inflight : TransportError(n)
    \/ \E rd \in reading : ConcatEnd(rd)
    \/ \E i \in 1..Len(timers) : TimerFire(i)
    \/ \E k \in 0..MaxAttempts : Flow(k)
    \/ Tick

\* time passes, timers fire, the transport answers every request, body
\* streams end
FairSpec ==
    /\ Init /\ [][FairNext]_vars
    /\ WF_vars(Transport)
    /\ WF_vars(\E rd \in reading : ConcatEnd(rd))
    /\ WF_vars(\E i \in 1..Len(timers) : TimerFire(i))
    /\ WF_vars(Tick)

\* retry-after values that are not plain integers: a fraction below one, a
\* fraction above one, and a text without digits
DelayValues ==
    { <<"2">>, <<"0", ".", "0", "0", "1">>, <<"1", ".", "9">>,
      <<"s", "o", "o", "n">> }
DelayHeaders == {NoHeader} \cup {Header(s) : s \in DelayValues}

\* an unbuffered and a buffered operation
DelayOps == {"getContent", "list"}

\* the steps of a call answered with those retry-after values
DelayNext ==
    \/ \E op \in DelayOps, options \in {"retry:true", "retry:false"},
          callback \in CallbackArgs : Call(op, options, callback, NoFile, <<>>)
    \/ \E n \in inflight, statusCode \in Statuses, retryAfter \in DelayHeaders,
          raw \in FairBodies : Respond(n, statusCode, retryAfter, raw)
    \/ \E n \in inflight : TransportError(n)
    \/ \E rd \in reading : ConcatEnd(rd)
    \/ \E i \in 1..Len(timers) : TimerFire(i)
    \/ Tick

DelaySpec == Init /\ [][DelayNext]_vars

\* the closure of the current operation: its arguments, its requests and
\* responses, its callback
Context ==
    [args |-> args, reqs |-> reqs, streams |-> streams, uploads |-> uploads,
     call |-> call, threw |-> threw, requests |-> requests,
     inflight |-> inflight, reading |-> reading, consumed |-> consumed,
     cbLog |-> cbLog, first |-> first, last |-> last, pendings |-> pendings]

\* the code that runs next belongs to the other operation of the client
Switch ==
    /\ turn' = 3 - turn
    /\ parked' = Context
    /\ reqs' = parked.reqs /\ streams' = parked.streams
    /\ uploads' = parked.uploads /\ call' = parked.call
    /\ args' = parked.args /\ threw' = parked.threw
    /\ requests' = parked.requests /\ inflight' = parked.inflight
    /\ reading' = parked.reading /\ consumed' = parked.consumed
    /\ cbLog' = parked.cbLog /\ first' = parked.first
    /\ last' = parked.last /\ pendings' = parked.pendings
    /\ UNCHANGED <<client, timers, waited, owner>>

\* two operations on one client: an unbuffered and a buffered one, answered
\* with a success or a failure, with or without retry-after, with an object
\* or a text
PairOps == {"getContent", "list"}
PairStatuses == {200, 404}
PairHeaders == {NoHeader, Header(<<"0">>)}
PairBodies == {JSONObjectText, "oops"}

PairNext ==
    \/ \E op \in PairOps, options \in {"retry:true", "retry:false"} :
          Call(op, options, "function", NoFile, <<>>)
    \/ \E n \in inflight, statusCode \in PairStatuses,
          retryAfter \in PairHeaders, raw \in PairBodies :
          Respond(n, statusCode, retryAfter, raw)
    \/ \E n \in inflight : TransportError(n)
    \/ \E rd \in reading : ConcatEnd(rd)
    \/ \E i \in 1..Len(timers) : TimerFire(i)
    \/ Switch

PairSpec == Init /\ [][PairNext]_vars

\* the operations that derive fields of params, called with options that
\* carry a params object; the file of an upload is a Buffer
ParamsOps == {"list", "uploadFile", "uploadURL", "sessions.create"}
ParamsStatuses == {200, 202, 404}

ParamsNext ==
    \/ \E op \in ParamsOps, options \in {"retry:true", "retry:false"},
          params \in ParamObjects :
          CallWith(op, options, "function",
                   IF op = "uploadFile" THEN [id |-> 0, kind |-> "buffer"]
                   ELSE NoFile,
                   IF op = "uploadFile" THEN <<1>> ELSE <<>>, params)
    \/ \E n \in inflight, statusCode \in ParamsStatuses,
          retryAfter \in PairHeaders :
          Respond(n, statusCode, retryAfter, JSONObjectText)
    \/ \E n \in inflight : TransportError(n)
    \/ \E rd \in reading : ConcatEnd(rd)
    \/ \E i \in 1..Len(timers) : TimerFire(i)

ParamsSpec == Init /\ [][ParamsNext]_vars

\* uploadFile called with every kind of file, with and without a name in
\* options.params
NameParams == {NoParams, [NoParams EXCEPT !.name = "given.pdf"]}

NameNext ==
    \/ \E kind \in FileKinds \cup ResponseKinds,
          options \in {"function", "retry:false"}, params \in NameParams :
          CallWith("uploadFile", options,
                   IF options = "function" THEN "undefined" ELSE "function",
                   [id |-> 0, kind |-> kind], <<1>>, params)
    \/ \E k \in 0..MaxAttempts : Flow(k)
    \/ \E n \in inflight, statusCode \in Statuses, raw \in RawBodies :
          Respond(n, statusCode, NoHeader, raw)
    \/ \E n \in inflight : TransportError(n)
    \/ \E rd \in reading : ConcatEnd(rd)

NameSpec == Init /\ [][NameNext]_vars

(***************************************************************************)
(* Vocabulary of the properties                                            *)
(***************************************************************************)
RetryEnabled == call.options = "retry:true"
HasCallback == CallbackFn(call) = "function"

\* the latest response has been delivered and its handling has finished
HandledLast ==
    /\ last.id >= 1
    /\ \A rd \in reading : rd.response.id # last.id

HasRetryAfterValue(response) ==
    response.retryAfter.present /\ response.retryAfter.value # <<>>

\* what fn receives on a success with response r
SuccessDelivery(r) ==
    IF Buffered(call.op)
    THEN [err |-> Null, a2 |-> parseJSONBody(concat(r.raw)), a3 |-> r]
    ELSE [err |-> Null, a2 |-> r, a3 |-> Undefined]

\* what fn receives on a failure
FailureDelivery(error, status, r) ==
    [err |-> [error |-> error, response |-> r, status |-> status],
     a2 |-> Undefined, a3 |-> Undefined]

\* the response an invocation of fn is about, NoResponse if there is none
CbResponse(e) ==
    IF e.err # Null THEN e.err.response
    ELSE IF Buffered(call.op) THEN e.a3 ELSE e.a2

FirstIs202RetryAfter0 ==
    first.statusCode = 202 /\ first.retryAfter = Header(<<"0">>)

(***************************************************************************)
(* C1                                                                      *)
(***************************************************************************)
\* C1 as stated: for every operation called with retry enabled, a first
\* response 202 with retry-after: 0 is not delivered but retried, and once a
\* second response with a success status has been handled there were exactly
\* two requests and one callback, with a null error and the second
\* response's data.
C1_EveryOperation ==
    (RetryEnabled /\ HasCallback /\ FirstIs202RetryAfter0) =>
        /\ (last.id = 1 /\ HandledLast /\ requests = 1) =>
               (cbLog = <<>> /\ Len(timers) = 1)
        /\ (last.id = 2 /\ last.statusCode \in SuccessCodes(call.op) /\ HandledLast) =>
               /\ requests = 2
               /\ timers = <<>>
               /\ cbLog = <<SuccessDelivery(last)>>

\* C1 amended: the same for the operations whose success set contains 202,
\* when the second response has a success status and no retry-after value:
\* exactly two requests, one callback, null error, the second response's data.
C1_Retry202ThenSuccess ==
    (RetryEnabled /\ HasCallback /\ FirstIs202RetryAfter0
        /\ 202 \in SuccessCodes(call.op)) =>
        /\ (last.id = 1 /\ HandledLast /\ requests = 1) =>
               (cbLog = <<>> /\ Len(timers) = 1)
        /\ (last.id = 2 /\ last.statusCode \in SuccessCodes(call.op)
              /\ ~HasRetryAfterValue(last) /\ HandledLast) =>
               /\ requests = 2
               /\ timers = <<>>
               /\ cbLog = <<SuccessDelivery(last)>>

C1_Witness ==
    /\ RetryEnabled /\ HasCallback /\ FirstIs202RetryAfter0
    /\ last.id = 2 /\ requests = 2
    /\ cbLog = <<SuccessDelivery(last)>>

(***************************************************************************)
(* C2                                                                      *)
(***************************************************************************)
\* C2 as stated: once a response whose status is in the operation's success
\* set has been handled, the callback has been invoked with a null error and
\* the body (parsed for the buffered operations).
C2_SuccessAlwaysDelivered ==
    (HasCallback /\ HandledLast /\ requests = last.id
        /\ last.statusCode \in SuccessCodes(call.op)) =>
        cbLog = <<SuccessDelivery(last)>>

\* C2 amended: a response whose status is in the operation's success set is
\* delivered to the callback with a null error and the body (parsed for the
\* buffered operations), unless retry is enabled and the response carries a
\* retry-after value.
C2_SuccessDelivered ==
    (HasCallback /\ HandledLast /\ requests = last.id
        /\ last.statusCode \in SuccessCodes(call.op)
        /\ ~(RetryEnabled /\ HasRetryAfterValue(last))) =>
        cbLog = <<SuccessDelivery(last)>>

C2_Witness ==
    /\ HasCallback /\ RetryEnabled /\ call.op = "list"
    /\ last.statusCode = 200 /\ last.raw = JSONObjectText
    /\ cbLog = <<[err |-> Null, a2 |-> Val("object", "id=abc"), a3 |-> last]>>

(***************************************************************************)
(* C3                                                                      *)
(***************************************************************************)
\* C3: once a response whose status is outside the success set and the
\* pending statuses has been handled, the callback has been invoked with the
\* error object {error, status, response}: the parsed (or raw) body, the
\* response's status code, and the response.
C3_FailureCarriesBody ==
    (HasCallback /\ HandledLast /\ requests = last.id
        /\ last.statusCode \notin SuccessCodes(call.op) \cup {202, 429}) =>
        cbLog = <<FailureDelivery(parseJSONBody(concat(last.raw)),
                                  last.statusCode, last)>>

(***************************************************************************)
(* C4                                                                      *)
(***************************************************************************)
\* C4 as stated: with retries disabled, a 202 response carrying retry-after
\* never invokes the callback and causes no further request.
C4_SilentStall ==
    (call # NoCall /\ ~RetryEnabled /\ last.statusCode = 202
        /\ last.retryAfter.present) =>
        (cbLog = <<>> /\ requests = 1 /\ timers = <<>>)

\* C4 amended: with retries disabled, a 202 response carrying retry-after
\* causes no timer and no further request; the callback is invoked once,
\* with the success when 202 is in the operation's success set and with a
\* failure of status 202 otherwise.
C4_NoRetryDelivers ==
    (call # NoCall /\ ~RetryEnabled /\ last.statusCode = 202
        /\ last.retryAfter.present) =>
        /\ requests = 1
        /\ timers = <<>>
        /\ (HasCallback /\ HandledLast) =>
              IF 202 \in SuccessCodes(call.op)
              THEN cbLog = <<SuccessDelivery(last)>>
              ELSE /\ Len(cbLog) = 1
                   /\ cbLog[1].err # Null
                   /\ cbLog[1].err.status = 202
                   /\ cbLog[1].err.response = last

C4_Witness ==
    /\ ~RetryEnabled /\ HasCallback
    /\ last.statusCode = 202 /\ HasRetryAfterValue(last)
    /\ Len(cbLog) = 1

(***************************************************************************)
(* C5                                                                      *)
(***************************************************************************)
\* the latest response is one retry() was consulted on, handled, and not yet
\* followed by another request
C5_Polled ==
    /\ RetryEnabled /\ HandledLast /\ requests = last.id
    /\ last.statusCode \in SuccessCodes(call.op) \cup {429}

\* C5 as stated: with retry enabled, retry-after: 0 schedules a retry of
\* zero delay, and only a missing retry-after header suppresses the retry.
C5_OnlyMissingSuppresses ==
    C5_Polled =>
        /\ last.retryAfter = Header(<<"0">>) =>
              (timers = <<[ms |-> Num(0), by |-> last.id]>> /\ cbLog = <<>>)
        /\ timers = <<>> => ~last.retryAfter.present

\* C5 amended: with retry enabled, retry-after: 0 schedules a retry of zero
\* delay; only a missing or empty retry-after header suppresses the retry.
C5_ZeroIsImmediate ==
    C5_Polled =>
        /\ last.retryAfter = Header(<<"0">>) =>
              (timers = <<[ms |-> Num(0), by |-> last.id]>> /\ cbLog = <<>>)
        /\ timers = <<>> =>
              (~last.retryAfter.present \/ last.retryAfter.value = <<>>)

C5_Witness ==
    /\ C5_Polled
    /\ last.retryAfter = Header(<<"0">>)
    /\ timers = <<[ms |-> Num(0), by |-> last.id]>>

(***************************************************************************)
(* C6                                                                      *)
(***************************************************************************)
\* C6: a step in which a request ends without a response (a transport
\* failure) invokes the callback with {error, status: 0, response:
\* undefined}, sets no timer and issues no request, retry enabled or not.
C6_TransportFailure ==
    [][(inflight' # inflight /\ inflight' \subseteq inflight /\ last' = last
          /\ HasCallback) =>
          /\ cbLog' = Append(cbLog, FailureDelivery(TransportErr, 0, NoResponse))
          /\ timers' = timers
          /\ requests' = requests
          /\ reading' = reading]_vars

C6_Witness ==
    /\ RetryEnabled /\ HasCallback /\ requests = 2
    /\ cbLog = <<FailureDelivery(TransportErr, 0, NoResponse)>>

(***************************************************************************)
(* C7                                                                      *)
(***************************************************************************)
\* C7: with retry enabled, a failure response whose status is not a pending
\* one is never retried, whatever its retry-after header: one request, no
\* timer, and the error is delivered for that first response.
C7_FailureNotRetried ==
    (RetryEnabled /\ HasCallback /\ first.id = 1
        /\ first.statusCode \notin SuccessCodes(call.op) \cup {429}) =>
        /\ requests = 1
        /\ timers = <<>>
        /\ HandledLast =>
              /\ Len(cbLog) = 1
              /\ cbLog[1].err # Null
              /\ cbLog[1].err.status = first.statusCode
              /\ cbLog[1].err.response = last

C7_Witness ==
    /\ RetryEnabled /\ HasCallback
    /\ first.statusCode = 404 /\ first.retryAfter = Header(<<"2">>)
    /\ Len(cbLog) = 1 /\ cbLog[1].err # Null

(***************************************************************************)
(* C8                                                                      *)
(***************************************************************************)
\* C8: at most one request in flight, at most one timer pending, never both;
\* a timer exists only once the response that caused it has been classified
\* (for a buffered operation, once its body has been read to the end).
C8_Sequential ==
    /\ Cardinality(inflight) <= 1
    /\ Len(timers) <= 1
    /\ ~(inflight # {} /\ timers # <<>>)
    /\ (inflight # {} \/ timers # <<>>) => reading = {}
    /\ \A i \in 1..Len(timers) :
          /\ timers[i].by \notin inflight
          /\ timers[i].by = last.id
          /\ CallbackLength(args) = 3 => timers[i].by \in consumed

C8_Witness ==
    /\ Len(timers) = 1 /\ CallbackLength(args) = 3 /\ requests = 2

(***************************************************************************)
(* C9                                                                      *)
(***************************************************************************)
\* C9: with retry enabled every pending response is followed by one more
\* request, with retry still enabled, however many came before; when the
\* callback is invoked it is invoked once, after exactly (number of pending
\* responses + 1) requests, with the outcome of the last attempt.
C9_UnboundedPolling ==
    RetryEnabled =>
        /\ args.op = call.op /\ args.options = "retry:true"
        /\ requests + Len(timers)
             + Cardinality({rd \in reading : PendingResponse(call, rd.response)})
             = pendings + 1
        /\ (HasCallback /\ cbLog # <<>>) =>
              /\ Len(cbLog) = 1
              /\ requests = pendings + 1
              /\ inflight = {} /\ timers = <<>>
              /\ \/ CbResponse(cbLog[1]) = last /\ last.id = requests
                 \/ CbResponse(cbLog[1]) = NoResponse /\ last.id = requests - 1

C9_Witness ==
    /\ RetryEnabled /\ HasCallback
    /\ pendings = MaxAttempts - 1 /\ requests = MaxAttempts
    /\ Len(cbLog) = 1

(***************************************************************************)
(* C10                                                                     *)
(***************************************************************************)
\* C10: with retry enabled, once some attempt has got a terminal response
\* the callback is eventually invoked, and every pending retry timer
\* eventually fires and issues a new request.
C10_Liveness ==
    /\ (RetryEnabled /\ HasCallback /\ last.id >= 1 /\ ~PendingResponse(call, last))
          ~> (cbLog # <<>>)
    /\ (RetryEnabled /\ timers # <<>>) ~> (timers = <<>> /\ inflight # {})

C10_Witness ==
    /\ RetryEnabled /\ HasCallback
    /\ pendings >= 1 /\ last.id = requests /\ ~PendingResponse(call, last)
    /\ cbLog # <<>>

(***************************************************************************)
(* C11                                                                     *)
(***************************************************************************)
\* C11: every attempt of a call is made with the caller's arguments: the
\* same operation, options (retry flag) and callback, never a wrapper, and
\* every request has the method, URL and body of the first one.
C11_SameArguments ==
    requests >= 1 =>
        /\ args.op = call.op
        /\ args.options = call.options
        /\ args.callback = call.callback
        /\ args.content = call.content
        /\ \A n \in 1..Len(reqs) :
              /\ reqs[n].method = reqs[1].method
              /\ reqs[n].url = reqs[1].url
              /\ reqs[n].body = reqs[1].body
              /\ reqs[n] = Request(client, call)

C11_Witness ==
    /\ call.op = "sessions.create" /\ RetryEnabled /\ HasCallback
    /\ Len(reqs) = MaxAttempts
    /\ reqs[MaxAttempts] = reqs[1]
    /\ args.callback = "function"

(***************************************************************************)
(* C12                                                                     *)
(***************************************************************************)
IsPrefix(s, t) == Len(s) <= Len(t) /\ s = SubSeq(t, 1, Len(s))

\* C12: uploadFile with retry and a readable source: what any attempt has
\* sent of the file is a prefix of what the first attempt has sent or the
\* other way round, and an attempt whose file part has ended has sent the
\* whole content of the source, chunk for chunk.
C12_SameContent ==
    (call.op = "uploadFile" /\ RetryEnabled /\ Readable(call)) =>
        \A n \in 1..Len(uploads) :
            /\ uploads[n].piped
            /\ \/ IsPrefix(uploads[n].data, uploads[1].data)
               \/ IsPrefix(uploads[1].data, uploads[n].data)
            /\ IsPrefix(uploads[n].data, call.content)
            /\ uploads[n].done => uploads[n].data = call.content

C12_Witness ==
    /\ call.op = "uploadFile" /\ RetryEnabled /\ call.file.kind = "stream"
    /\ Len(call.content) = MaxChunks
    /\ Len(uploads) >= 2
    /\ uploads[1].done /\ uploads[2].done
    /\ uploads[2].data = uploads[1].data
    /\ uploads[2].data = call.content

(***************************************************************************)
(* C13                                                                     *)
(***************************************************************************)
\* C13: for getContent and getThumbnail a response with a success status is
\* never piped or read by the handler; unless it is retried, the callback
\* is invoked in the very step that receives it, with a null error and the
\* response itself, unread and unparsed.
C13_LiveStream ==
    call.op \in {"getContent", "getThumbnail"} =>
        /\ last.statusCode \in SuccessCodes(call.op) =>
              /\ last.id \notin consumed
              /\ \A rd \in reading : rd.response.id # last.id
        /\ \A i \in 1..Len(cbLog) :
              cbLog[i].err = Null =>
                  /\ cbLog[i].a2 = last
                  /\ cbLog[i].a3 = Undefined
                  /\ last.id \notin consumed
        /\ (HasCallback /\ last.statusCode \in SuccessCodes(call.op)
              /\ ~(RetryEnabled /\ HasRetryAfterValue(last))) =>
              cbLog = <<[err |-> Null, a2 |-> last, a3 |-> Undefined]>>

C13_Witness ==
    /\ call.op = "getThumbnail" /\ last.statusCode = 200 /\ last.raw = "oops"
    /\ cbLog = <<[err |-> Null, a2 |-> last, a3 |-> Undefined]>>
    /\ last.id \notin consumed /\ reading = {}

(***************************************************************************)
(* C14                                                                     *)
(***************************************************************************)
\* C14: once get or update has handled a response that is neither a
\* success nor retried, the callback has been invoked once, with an error
\* as first argument and the JSON-parsed body as second argument.
C14_ErrorBodySecond ==
    (call.op \in {"get", "update"} /\ HasCallback /\ HandledLast
        /\ last.statusCode \notin SuccessCodes(call.op)
        /\ ~PendingResponse(call, last)
        /\ last.raw = JSONObjectText) =>
        /\ Len(cbLog) = 1
        /\ cbLog[1].err # Null
        /\ cbLog[1].a2 = JSONParse(last.raw)

(***************************************************************************)
(* C15                                                                     *)
(***************************************************************************)
\* the latest response of a documents.delete with a callback is handled
C15_Deleted ==
    call.op = "delete" /\ HasCallback /\ HandledLast /\ requests = last.id

\* C15 as stated: documents.delete succeeds only on 204: a 204 response
\* yields callback(null, response), a 404 response with a JSON object body
\* yields an error with status 404 and the parsed body.
C15_DeleteOn204 ==
    C15_Deleted =>
        /\ last.statusCode = 204 =>
              cbLog = <<[err |-> Null, a2 |-> last, a3 |-> Undefined]>>
        /\ (cbLog # <<>> /\ cbLog[1].err = Null) => last.statusCode = 204
        /\ (last.statusCode = 404 /\ last.raw = JSONObjectText) =>
              cbLog = <<FailureDelivery(JSONParse(last.raw), 404, last)>>

\* C15 amended: the same, the 204 response being delivered unless retry is
\* enabled and it carries a retry-after value.
C15_DeleteOnFinal204 ==
    C15_Deleted =>
        /\ (last.statusCode = 204
              /\ ~(RetryEnabled /\ HasRetryAfterValue(last))) =>
              cbLog = <<[err |-> Null, a2 |-> last, a3 |-> Undefined]>>
        /\ (cbLog # <<>> /\ cbLog[1].err = Null) => last.statusCode = 204
        /\ (last.statusCode = 404 /\ last.raw = JSONObjectText) =>
              cbLog = <<FailureDelivery(JSONParse(last.raw), 404, last)>>

C15_Witness ==
    /\ C15_Deleted /\ last.statusCode = 404 /\ last.raw = JSONObjectText
    /\ cbLog = <<FailureDelivery(Val("object", "id=abc"), 404, last)>>

(***************************************************************************)
(* C16                                                                     *)
(***************************************************************************)
\* the latest response of a sessions.delete with a callback is handled
C16_SessionDeleted ==
    call.op = "sessions.delete" /\ HasCallback /\ HandledLast
        /\ requests = last.id

C17_RetryOffByDefault ==
    (call # NoCall /\ ~RetryEnabled /\ ~Throws(call)) =>
        /\ timers = <<>>
        /\ requests = 1
        /\ Len(reqs) = 1

C17_Witness ==
    /\ call.options = "retry:1" /\ HasCallback /\ HandledLast
    /\ last.statusCode = 202 /\ HasRetryAfterValue(last)
    /\ timers = <<>> /\ requests = 1 /\ Len(cbLog) = 1

(***************************************************************************)
(* C18                                                                     *)
(***************************************************************************)
\* C18: uploadFile or uploadURL without retry: once a 202 response with a
\* JSON object body and no retry-after header is handled, the callback has
\* been invoked exactly once, with a null error and the parsed body.
C18_AcceptedUpload ==
    (call.op \in {"uploadFile", "uploadURL"} /\ ~RetryEnabled /\ HasCallback
        /\ HandledLast /\ last.statusCode = 202
        /\ ~last.retryAfter.present /\ last.raw = JSONObjectText) =>
        cbLog = <<[err |-> Null, a2 |-> JSONParse(last.raw), a3 |-> last]>>

C18_Witness ==
    /\ call.op = "uploadFile" /\ call.options = "function" /\ HandledLast
    /\ last.statusCode = 202 /\ ~last.retryAfter.present
    /\ cbLog = <<[err |-> Null, a2 |-> Val("object", "id=abc"), a3 |-> last]>>

(***************************************************************************)
(* C19                                                                     *)
(***************************************************************************)
\* C19 as stated: a 202 response without a retry-after header never leads
\* to a callback invocation, a timer or a further request.
C19_StallWithoutHeader ==
    (call # NoCall /\ last.statusCode = 202 /\ ~last.retryAfter.present
        /\ requests = last.id) =>
        /\ cbLog = <<>>
        /\ \A i \in 1..Len(timers) : timers[i].by # last.id

\* C19 amended: a 202 response without a retry-after header schedules no
\* timer and no further request, and once it is handled the callback has
\* been invoked exactly once: with a null error when 202 is a success status
\* of the operation, with an error of status 202 otherwise.
C19_NoStallWithoutHeader ==
    (call # NoCall /\ last.statusCode = 202 /\ ~last.retryAfter.present
        /\ requests = last.id) =>
        /\ \A i \in 1..Len(timers) : timers[i].by # last.id
        /\ (HasCallback /\ HandledLast) =>
              /\ Len(cbLog) = 1
              /\ 202 \in SuccessCodes(call.op) => cbLog[1].err = Null
              /\ 202 \notin SuccessCodes(call.op) =>
                    /\ cbLog[1].err # Null
                    /\ cbLog[1].err.status = 202

C19_Witness ==
    /\ call.op = "get" /\ RetryEnabled /\ HasCallback
    /\ HandledLast /\ last.statusCode = 202 /\ ~last.retryAfter.present
    /\ requests = last.id /\ last.id = 2
    /\ Len(cbLog) = 1 /\ cbLog[1].err # Null /\ cbLog[1].err.status = 202

(***************************************************************************)
(* C20                                                                     *)
(***************************************************************************)
\* C20 as stated: every request carries the authorization header built
\* from the token.
C20_AuthorizationHeader ==
    \A n \in 1..Len(reqs) :
        /\ "authorization" \in DOMAIN reqs[n].headers
        /\ reqs[n].headers["authorization"] = Token

\* C20 amended: every request carries an authorization header; it is the one
\* built from the token unless the options of the client carry their own
\* authorization header, which then replaces it on every request.
C20_AuthorizationUnlessOverridden ==
    \A n \in 1..Len(reqs) :
        /\ "authorization" \in DOMAIN reqs[n].headers
        /\ client = "none" => reqs[n].headers["authorization"] = Token
        /\ client = "authorization" =>
              reqs[n].headers["authorization"] = "other"

C20_Witness ==
    /\ client = "none" /\ call.op = "update" /\ Len(reqs) = MaxAttempts
    /\ \A n \in 1..MaxAttempts : reqs[n].headers["authorization"] = Token
    /\ "content-type" \in DOMAIN reqs[MaxAttempts].headers

(***************************************************************************)
(* C21                                                                     *)
(***************************************************************************)
\* the latest response is a 429, handled, and not yet followed by a request
C21_Handled429 ==
    call # NoCall /\ HandledLast /\ requests = last.id /\ last.statusCode = 429

\* a 429 response is delivered to the callback as a failure of status 429
C21_Delivered ==
    /\ timers = <<>>
    /\ HasCallback =>
          /\ Len(cbLog) = 1
          /\ cbLog[1].err # Null
          /\ cbLog[1].err.status = 429
          /\ cbLog[1].err.response = last

\* a 429 response is retried and not delivered
C21_Retried ==
    /\ Len(timers) = 1 /\ timers[1].by = last.id
    /\ cbLog = <<>>

\* C21 as stated: with retry enabled and a retry-after header present a 429
\* response schedules a retry and is not delivered; with retry disabled or
\* no retry-after header it is delivered as a failure of status 429.
C21_429WithHeader ==
    C21_Handled429 =>
        IF RetryEnabled /\ last.retryAfter.present
        THEN C21_Retried ELSE C21_Delivered

\* C21 amended: the same, the retry being scheduled when the retry-after
\* header has a non-empty value; an empty header counts as no header.
C21_429WithHeaderValue ==
    C21_Handled429 =>
        IF RetryEnabled /\ HasRetryAfterValue(last)
        THEN C21_Retried ELSE C21_Delivered

C21_Witness ==
    /\ C21_Handled429 /\ call.op = "get" /\ RetryEnabled /\ HasCallback
    /\ last.retryAfter = Header(<<"2">>) /\ last.id = 2
    /\ C21_Retried

(***************************************************************************)
(* C22                                                                     *)
(***************************************************************************)
\* a retry has been scheduled for the latest response: its timer is pending
\* or has fired
C22_Scheduled ==
    \/ \E i \in 1..Len(timers) : timers[i].by = last.id
    \/ requests > last.id

\* C22: once a response is handled, a retry has been scheduled for it, and
\* the callback has not been invoked for it, if and only if retry is enabled,
\* its retry-after header has a non-empty value, and its status is in the
\* success set of the operation or is 429; so a 200, 201 or 204 success with
\* retry-after is retried, and a 202 answer to list, get, update or delete is
\* delivered as a failure of status 202.
C22_RetryDecision ==
    (call # NoCall /\ HandledLast) =>
        /\ C22_Scheduled <=>
              /\ RetryEnabled
              /\ HasRetryAfterValue(last)
              /\ last.statusCode \in SuccessCodes(call.op) \cup {429}
        /\ C22_Scheduled =>
              \A i \in 1..Len(cbLog) : CbResponse(cbLog[i]) # last
        /\ (~C22_Scheduled /\ HasCallback) =>
              (Len(cbLog) = 1 /\ CbResponse(cbLog[1]) = last)
        /\ (RetryEnabled /\ HasRetryAfterValue(last)
              /\ last.statusCode \in {200, 201, 204} \cap SuccessCodes(call.op)) =>
              C22_Scheduled
        /\ (call.op \in {"list", "get", "update", "delete"} /\ HasCallback
              /\ last.statusCode = 202) =>
              /\ ~C22_Scheduled
              /\ cbLog[1].err # Null
              /\ cbLog[1].err.status = 202

C22_Witness ==
    /\ call.op = "delete" /\ RetryEnabled /\ HasCallback /\ HandledLast
    /\ first.statusCode = 204 /\ first.retryAfter = Header(<<"0">>)
    /\ last.id = 2 /\ last.statusCode = 202 /\ HasRetryAfterValue(last)
    /\ requests = 2 /\ timers = <<>>
    /\ Len(cbLog) = 1 /\ cbLog[1].err # Null /\ cbLog[1].err.status = 202

(***************************************************************************)
(* C23                                                                     *)
(***************************************************************************)
\* the success sets as the claim lists them
C23_Set(op) ==
    CASE op \in {"list", "get", "update"} -> {200}
      [] op = "delete" -> {204}
      [] op \in {"uploadFile", "uploadURL", "getContent", "getThumbnail"} ->
             {200, 202}
      [] op = "sessions.create" -> {201, 202}

\* C23: list, get and update succeed on 200 only, delete on 204 only, the
\* uploads, getContent and getThumbnail on 200 and 202, sessions.create on
\* 201 and 202: the callback gets a null error only for a status of the
\* operation's own set, and a success status of another operation that is
\* not in that set is delivered as a failure of that status.
C23_OwnSuccessSet ==
    (call # NoCall /\ call.op # "sessions.delete" /\ HasCallback
        /\ HandledLast /\ requests = last.id) =>
        /\ Handler(call).okStatusCodes = C23_Set(call.op)
        /\ (cbLog # <<>> /\ cbLog[1].err = Null) =>
              last.statusCode \in C23_Set(call.op)
        /\ (last.statusCode \in C23_Set(call.op)
              /\ ~(RetryEnabled /\ HasRetryAfterValue(last))) =>
              (Len(cbLog) = 1 /\ cbLog[1].err = Null)
        /\ last.statusCode \in {200, 201, 202, 204} \ C23_Set(call.op) =>
              /\ timers = <<>>
              /\ Len(cbLog) = 1
              /\ cbLog[1].err # Null
              /\ cbLog[1].err.status = last.statusCode
              /\ cbLog[1].err.response = last

C23_Witness ==
    /\ call.op = "delete" /\ HasCallback /\ HandledLast
    /\ last.statusCode = 200 /\ last.raw = JSONObjectText
    /\ cbLog = <<FailureDelivery(JSONParse(last.raw), 200, last)>>

(***************************************************************************)
(* C24                                                                     *)
(***************************************************************************)
\* the delay in milliseconds the claim gives for a retry-after value
C24_Delay(value) ==
    CASE value = <<"0">> -> Num(0)
      [] value = <<"2">> -> Num(2000)
      [] value = <<"0", ".", "0", "0", "1">> -> Num(0)
      [] value = <<"1", ".", "9">> -> Num(1000)
      [] OTHER -> NaN

\* every pending timer was set for the latest response, with the delay of
\* its retry-after value, and has not waited longer than that
C24_TimerDelay ==
    \A i \in 1..Len(timers) :
        /\ timers[i].by = last.id
        /\ timers[i].ms = C24_Delay(last.retryAfter.value)
        /\ Len(waited) = Len(timers)
        /\ ~timers[i].ms.nan => waited[i] <= timers[i].ms.n

\* a request after the first is issued only by a timer whose delay has
\* elapsed, and that timer is gone afterwards
C24_RetryStep ==
    (requests' # requests /\ requests >= 1) =>
        /\ requests' = requests + 1
        /\ \E i \in 1..Len(timers) :
              /\ timers[i].ms.nan \/ waited[i] >= timers[i].ms.n
              /\ timers' = SubSeq(timers, 1, i - 1)
                              \o SubSeq(timers, i + 1, Len(timers))
        /\ Len(timers') = Len(timers) - 1

\* C24: the delay of a retry is the retry-after header parsed as a base-10
\* integer of seconds, times 1000 (0.001 gives 0, 1.9 gives 1000); the
\* retried request is not issued before that many milliseconds have passed
\* since the response was classified, and the timer fires once.
C24_DelayElapses == [](C24_TimerDelay) /\ [][C24_RetryStep]_vars

C24_Witness ==
    /\ call.op = "getContent" /\ RetryEnabled
    /\ first.retryAfter = Header(<<"2">>)
    /\ requests = 2 /\ last.id = 2
    /\ last.retryAfter = Header(<<"0", ".", "0", "0", "1">>)
    /\ timers = <<[ms |-> Num(0), by |-> 2]>>

(***************************************************************************)
(* C25                                                                     *)
(***************************************************************************)
\* the callback has been invoked: nothing is in flight, being read or
\* scheduled, and it has been invoked once
C25_Done ==
    (HasCallback /\ cbLog # <<>>) =>
        /\ Len(cbLog) = 1
        /\ timers = <<>>
        /\ inflight = {}
        /\ reading = {}

\* no step after the callback issues a request, sets a timer or invokes the
\* callback again
C25_NoStepAfter ==
    (HasCallback /\ cbLog # <<>>) =>
        /\ requests' = requests
        /\ reqs' = reqs
        /\ inflight' = {}
        /\ timers' = <<>>
        /\ cbLog' = cbLog

\* C25: once the callback has been invoked, no further request is issued,
\* no retry timer is pending or created later, and the callback is never
\* invoked a second time.
C25_Terminal == [](C25_Done) /\ [][C25_NoStepAfter]_vars

C25_Witness ==
    /\ call.op = "uploadURL" /\ RetryEnabled /\ HasCallback
    /\ requests = MaxAttempts /\ pendings = MaxAttempts - 1
    /\ Len(cbLog) = 1 /\ cbLog[1].err = Null
    /\ timers = <<>> /\ inflight = {} /\ reading = {}

(***************************************************************************)
(* C26                                                                     *)
(***************************************************************************)
\* the operation has issued its request and nothing of it is left to happen
C26_Completed ==
    /\ call # NoCall /\ HasCallback /\ requests >= 1
    /\ inflight = {} /\ timers = <<>> /\ reading = {}

\* the latest response is a pending verdict that found retry disabled
C26_PendingUnretried ==
    /\ ~RetryEnabled
    /\ last.statusCode \in {202, 429}
    /\ last.retryAfter.present

\* C26 as stated: a completed execution has left the callback uninvoked
\* exactly when a pending verdict arrived while retry was disabled (the
\* stalled state); in every other completed execution it has been invoked.
C26_StalledWhenUnretried ==
    C26_Completed =>
        /\ cbLog = <<>> => C26_PendingUnretried
        /\ C26_PendingUnretried => cbLog = <<>>
        /\ ~C26_PendingUnretried => Len(cbLog) = 1

\* C26 amended: no execution stalls: every completed execution has invoked
\* the callback exactly once, a pending verdict that finds retry disabled
\* being delivered as a success or as a failure like any other response.
C26_NeverStalled ==
    C26_Completed =>
        /\ Len(cbLog) = 1
        /\ C26_PendingUnretried =>
              /\ CbResponse(cbLog[1]) = last
              /\ cbLog[1].err = Null <=> last.statusCode \in SuccessCodes(call.op)

C26_Witness ==
    /\ C26_Completed /\ C26_PendingUnretried /\ call.op = "getContent"
    /\ last.statusCode = 202 /\ last.retryAfter = Header(<<"2">>)
    /\ cbLog = <<[err |-> Null, a2 |-> last, a3 |-> Undefined]>>

(***************************************************************************)
(* C27                                                                     *)
(***************************************************************************)
\* C27: when uploadFile duplicates its source, every duplicate carries the
\* properties of the source that determineFilename reads (httpVersion,
\* headers and client of an HTTP response, path of a file), so every attempt
\* infers the name the first attempt inferred, also for a path string.
C27_SameFilename ==
    (call.op = "uploadFile" /\ RetryEnabled /\ Readable(call)) =>
        /\ \A k \in 1..Len(streams) :
              streams[k].meta = SourceMeta(call.file.kind)
        /\ \A n \in 1..Len(uploads) :
              /\ uploads[n].name = uploads[1].name
              /\ call.file.kind \in {"path", "stream"} =>
                    uploads[n].name = "doc.pdf"
              /\ call.file.kind = "response" =>
                    uploads[n].name = "report.pdf"

C27_Witness ==
    /\ call.op = "uploadFile" /\ RetryEnabled /\ call.file.kind = "path"
    /\ Len(uploads) = MaxAttempts
    /\ args.file = Cached(MaxAttempts)
    /\ uploads[1].name = "doc.pdf"
    /\ uploads[MaxAttempts].name = "doc.pdf"
    /\ streams[MaxAttempts].meta.path = <<"dir", "doc.pdf">>

(***************************************************************************)
(* C28                                                                     *)
(***************************************************************************)
\* C28: uploadFile called with retry requested and a file that is not a
\* readable source throws synchronously and issues no request.
C28_RejectsUnreadable ==
    (call.op = "uploadFile" /\ RetryEnabled /\ ~Readable(call)) =>
        (threw /\ requests = 0 /\ reqs = <<>>)

(***************************************************************************)
(* C29                                                                     *)
(***************************************************************************)
\* C29: with retry enabled and a stream source, the cached copy nobody reads
\* never pauses the source, and once the streams have passed on all they
\* can the first attempt has been sent the whole file, whatever its size.
C29_CachedNeverBlocks ==
    (call.op = "uploadFile" /\ RetryEnabled /\ Readable(call)) =>
        /\ \A k \in 0..MaxAttempts : ~Paused(k)
        /\ (requests >= 1 /\ Settled) =>
              (uploads[1].done /\ uploads[1].data = call.content)

(***************************************************************************)
(* C30                                                                     *)
(***************************************************************************)
\* the pending timers of the current operation
C30_Mine == {i \in 1..Len(timers) : owner[i] = turn}

\* C30: with two operations of one client interleaved in any way, each has
\* issued exactly the requests its own call and its own pending responses
\* account for, its timers come from its own latest response, and its
\* callback is invoked at most once, with the outcome of its own latest
\* attempt.
C30_Independent ==
    /\ Len(owner) = Len(timers)
    /\ call = NoCall =>
          (requests = 0 /\ C30_Mine = {} /\ cbLog = <<>> /\ last = NoResponse)
    /\ (call # NoCall /\ ~RetryEnabled) => (requests = 1 /\ C30_Mine = {})
    /\ RetryEnabled =>
          requests + Cardinality(C30_Mine)
            + Cardinality({rd \in reading : PendingResponse(call, rd.response)})
            = pendings + 1
    /\ \A i \in C30_Mine : timers[i].by = last.id /\ last.id = requests
    /\ \A n \in 1..Len(reqs) : reqs[n] = Request(client, call)
    /\ Len(cbLog) <= 1
    /\ cbLog # <<>> =>
          /\ C30_Mine = {} /\ inflight = {} /\ reading = {}
          /\ \/ CbResponse(cbLog[1]) = last /\ last.id = requests
             \/ CbResponse(cbLog[1]) = NoResponse /\ last.id = requests - 1
          /\ cbLog[1].err = Null => cbLog[1] = SuccessDelivery(last)

C30_Witness ==
    /\ call.op = "getContent" /\ RetryEnabled /\ requests = 2
    /\ cbLog = <<SuccessDelivery(last)>> /\ last.raw = "oops"
    /\ parked.call.op = "list" /\ parked.call.options = "retry:true"
    /\ parked.requests = 1 /\ parked.cbLog = <<>>
    /\ parked.last.raw = JSONObjectText
    /\ Len(timers) = 1 /\ owner[1] = 3 - turn

(***************************************************************************)
(* C31                                                                     *)
(***************************************************************************)
\* C31: once a buffered operation has handled a response of its success set
\* that it does not poll on and whose body is not valid JSON, the callback
\* has been invoked once, with a null error, the body as it was read and the
\* response, and nothing was thrown.
C31_UnparsableDelivered ==
    (HasCallback /\ Buffered(call.op) /\ HandledLast /\ requests = last.id
        /\ last.statusCode \in SuccessCodes(call.op)
        /\ ~JSONValid(last.raw)
        /\ ~(RetryEnabled /\ HasRetryAfterValue(last))) =>
        /\ cbLog = <<[err |-> Null, a2 |-> concat(last.raw), a3 |-> last]>>
        /\ ~threw

C31_Witness ==
    /\ HasCallback /\ call.op = "get" /\ ~threw
    /\ last.statusCode = 200 /\ last.raw = "oops"
    /\ cbLog = <<[err |-> Null, a2 |-> Buffer("oops"), a3 |-> last]>>

(***************************************************************************)
(* C32                                                                     *)
(***************************************************************************)
\* C32: for a buffered operation no response is piped into concat once its
\* body has been consumed, and once a response whose status is outside the
\* success set and 429 has been handled, the callback has been invoked once,
\* with an error object for that response.
C32_BodyReadOnce ==
    (HasCallback /\ Buffered(call.op)) =>
        /\ \A rd \in reading : rd.response.id \notin consumed
        /\ (HandledLast /\ requests = last.id
              /\ last.statusCode \notin SuccessCodes(call.op) \cup {429}) =>
              /\ Len(cbLog) = 1
              /\ cbLog[1].err # Null
              /\ cbLog[1].err.response = last

(***************************************************************************)
(* C33                                                                     *)
(***************************************************************************)
\* C33: whatever attempts an operation has made, the options and the params
\* object its arguments hold are as the caller passed them, although every
\* attempt has sent the fields it derives (the document id, the url, a name,
\* dates in RFC 3339 form), and every attempt has sent the same params.
C33_OptionsNotMutated ==
    requests >= 1 =>
        /\ args.options = call.options
        /\ args.params = call.params
        /\ call.params.url = "" /\ call.params.document_id = ""
        /\ \A n \in 1..Len(uploads) :
              /\ uploads[n].params = uploads[1].params
              /\ call.op \in {"uploadFile", "uploadURL"} =>
                    uploads[n].params.name # ""
              /\ call.op = "uploadURL" =>
                    uploads[n].params.url = UploadedURLText
              /\ call.op = "sessions.create" =>
                    /\ uploads[n].params.document_id = DocumentId
                    /\ uploads[n].params.expires_at \notin {SomeDate}
              /\ call.op = "list" =>
                    uploads[n].params.created_before \notin {SomeDate}

C33_Witness ==
    /\ call.op = "sessions.create" /\ RetryEnabled /\ requests = 2
    /\ call.params.expires_at = SomeDate
    /\ args.params = call.params
    /\ uploads[2].params.expires_at = "2014-01-01T00:00:00.000Z"
    /\ uploads[2].params.document_id = DocumentId

(***************************************************************************)
(* C34                                                                     *)
(***************************************************************************)
\* the name in the stated order of priority, for the file as it was passed
C34_Name ==
    LET m == SourceMeta(call.file.kind)
        header == FilenameMatch(m.disposition).text
    IN  IF call.params.name # "" THEN call.params.name
        ELSE IF m.http /\ header # "" THEN header
        ELSE IF m.http /\ basename(m.reqPath) # "" THEN basename(m.reqPath)
        ELSE IF ~m.http /\ basename(m.path) # "" THEN basename(m.path)
        ELSE "untitled document"

\* C34: uploadFile throws for no file, and the name it sends is the explicit
\* options.params.name, else the filename of the content-disposition header
\* of an HTTP response, else the basename of the request path of that
\* response or of the path of a file, else 'untitled document'.
C34_NamePriority ==
    call.op = "uploadFile" =>
        /\ ~threw
        /\ requests >= 1
        /\ uploads[1].params.name = C34_Name
        /\ uploads[1].name = C34_Name

(***************************************************************************)
(* C35                                                                     *)
(***************************************************************************)
\* nothing is thrown once the call has made its request, nothing is handed
\* to a callback, and with retry enabled every pending response has been
\* followed by a timer or a further request
C35_Handled ==
    /\ threw => requests = 0
    /\ cbLog = <<>>
    /\ RetryEnabled =>
          requests + Len(timers)
            + Cardinality({rd \in reading : PendingResponse(call, rd.response)})
            = pendings + 1

\* C35 as stated: an operation called without a callback function handles
\* every response and transport error without throwing, never reads a
\* response body into a buffer, and keeps polling on pending responses.
C35_NeverBuffers ==
    (call # NoCall /\ ~HasCallback) =>
        /\ C35_Handled
        /\ reading = {} /\ consumed = {}

\* C35 amended: the same, except that the body of a response whose status
\* is outside the operation's success set is still read in full, to build
\* the error object nobody receives; the body of a response of the success
\* set is never read.
C35_BuffersFailuresOnly ==
    (call # NoCall /\ ~HasCallback) =>
        /\ C35_Handled
        /\ \A rd \in reading :
              /\ rd.stage = "error"
              /\ rd.response.statusCode \notin SuccessCodes(call.op)
        /\ consumed \subseteq {last.id}
        /\ consumed # {} => last.statusCode \notin SuccessCodes(call.op)

C35_Witness ==
    /\ call.op = "get" /\ ~HasCallback /\ RetryEnabled
    /\ requests = 2 /\ pendings = 1 /\ first.statusCode = 200
    /\ last.id = 2 /\ last.statusCode = 404
    /\ consumed = {2} /\ reading = {} /\ cbLog = <<>> /\ ~threw

====
